---- MODULE Spec2Model ----
(***************************************************************************)
(* Model of velodyne_pointcloud/src/lib/rawdata.cc: the RawData packet     *)
(* decoder (setParameters, setup, getVLP32TimingOffsets, unpackAndAdd,     *)
(* unpack_vlp).                                                            *)
(*                                                                         *)
(* Units.  Lengths are integer millimetres (the wire distance unit is 2 mm *)
(* or 4 mm), times are integer nanoseconds, hardware angles are            *)
(* hundredths of a degree.  The user-facing view angles of setParameters   *)
(* are radians in the code; here they are given in quarters of a hundredth *)
(* of a degree, so that the centred double-to-int conversion (+0.5, then   *)
(* truncation) has something to round.  Floating-point arithmetic is       *)
(* modelled as exact rational arithmetic.  The Euclidean coordinates of a  *)
(* point are a function of the distance, the trig-table index and the      *)
(* laser correction; a point is recorded by those instead of by x, y, z.   *)
(* The intensity step of a slot is modelled on its own, over raw distances *)
(* whose ratio to 65535 is a small fraction.                               *)
(***************************************************************************)
EXTENDS Integers, Sequences, FiniteSets, TLC

VARIABLES calibration, config, is_vlp, vlp_spec, timing_offsets, rot_table,
          pc, ndecodes, call, setup_ret, intensity

vars == <<calibration, config, is_vlp, vlp_spec, timing_offsets, rot_table,
          pc, ndecodes, call, setup_ret, intensity>>

\* ------------------------------------------------------------------------
\* Bounds of the model

\* decode calls made on one output collection
MaxDecodes == 2

\* ------------------------------------------------------------------------
\* Constants of the wire format and of the device profiles (rawdata.h)

BLOCKS_PER_PACKET == 12
SCANS_PER_BLOCK == 32
RAW_SCAN_SIZE == 3
BLOCK_DATA_SIZE == SCANS_PER_BLOCK * RAW_SCAN_SIZE
ROTATION_MAX_UNITS == 36000
\* 0xeeff and 0xddff
UPPER_BANK == 61183
LOWER_BANK == 56831
\* legacy DISTANCE_RESOLUTION, 0.002 m, in millimetres
DISTANCE_RESOLUTION == 2

\* The device profiles: distance resolution in mm; durations in units of
\* 2.304 us, the firing duration (55.296 us = 24 units, 110.592 us = 48).
VLP_16_SPEC ==
  [distance_resolution |-> 2, firing_duration |-> 1,
   firing_seq_duration |-> 24, block_duration |-> 48,
   lasers_per_firing |-> 1, lasers_per_firing_seq |-> 16,
   firing_seqs_per_block |-> 2]

VLP_32_SPEC ==
  [distance_resolution |-> 4, firing_duration |-> 1,
   firing_seq_duration |-> 24, block_duration |-> 24,
   lasers_per_firing |-> 2, lasers_per_firing_seq |-> 32,
   firing_seqs_per_block |-> 1]

\* vlp_spec_ as the constructor leaves it when the object is zero-filled
ZERO_SPEC ==
  [distance_resolution |-> 0, firing_duration |-> 0,
   firing_seq_duration |-> 0, block_duration |-> 0,
   lasers_per_firing |-> 0, lasers_per_firing_seq |-> 0,
   firing_seqs_per_block |-> 0]

\* ------------------------------------------------------------------------
\* Arithmetic of the C++ built-ins

\* fmod and the integer %: the remainder has the sign of the dividend
CRem(x, m) == IF x >= 0 THEN x % m ELSE -((-x) % m)

\* round(n / d) for d > 0: to nearest, halves away from zero
RoundDiv(n, d) ==
  IF n >= 0 THEN (2 * n + d) \div (2 * d) ELSE -((2 * (-n) + d) \div (2 * d))

\* union two_bytes: bytes[0] is the low byte
TwoBytes(b0, b1) == b0 + 256 * b1

\* ros::Duration(d * 1e-6) of a duration in units of 2.304 us, in ns
DurationNs(units) == 2304 * units

\* ros::Time + ros::Duration, normalised to 0 <= nsec < 10^9
TimePlus(t, dur_ns) ==
  LET total == t.nsec + dur_ns
  IN [sec |-> t.sec + (total \div 1000000000), nsec |-> total % 1000000000]

\* float values that are not whole numbers: exact fractions in lowest terms
RECURSIVE GCD(_, _)
GCD(a, b) == IF b = 0 THEN a ELSE GCD(b, a % b)

Rat(n, d) ==
  LET g == GCD(IF n < 0 THEN -n ELSE n, d)
  IN [num |-> n \div g, den |-> d \div g]

Whole(n) == [num |-> n, den |-> 1]
RatAdd(a, b) == Rat(a.num * b.den + b.num * a.den, a.den * b.den)
RatSub(a, b) == Rat(a.num * b.den - b.num * a.den, a.den * b.den)
RatMul(a, b) == Rat(a.num * b.num, a.den * b.den)
RatLess(a, b) == a.num * b.den < b.num * a.den

\* abs of a float (the overload <math.h> gives in C++11)
RatAbs(a) == [num |-> IF a.num < 0 THEN -a.num ELSE a.num, den |-> a.den]

\* ------------------------------------------------------------------------
\* Inputs: calibration resources, parameters, packets

\* Calibration::read's result for a resource that loads: one LaserCorrection
\* per hardware laser number (dist_correction in mm, the output ring).
LaserCorrections(n) ==
  [i \in 1..n |->
     [dist_correction |-> 10 * ((i - 1) % 3),
      laser_ring |-> ((i - 1) * 7) % n]]

\* The calibration resources setup is given: unreadable, or n lasers.
CalibrationFiles ==
  { [readable |-> FALSE, num_lasers |-> 0],
    [readable |-> TRUE, num_lasers |-> 16],
    [readable |-> TRUE, num_lasers |-> 32],
    [readable |-> TRUE, num_lasers |-> 64] }

\* The "device_model" parameter: absent, or a string.
DeviceModelParams == { "absent", "VLP32" }

\* setParameters' arguments: ranges in mm, view angles in quarters of a
\* hundredth of a degree (view_width even, so that view_width/2 is exact).
ParamInputs ==
  { [min_range |-> 900, max_range |-> 130000,
     view_direction |-> 0, view_width |-> 0],
    [min_range |-> 900, max_range |-> 130000,
     view_direction |-> 0, view_width |-> 144000],
    [min_range |-> 900, max_range |-> 1000,
     view_direction |-> 0, view_width |-> 72000],
    [min_range |-> 910, max_range |-> 130000,
     view_direction |-> 72000, view_width |-> 36002],
    [min_range |-> 900, max_range |-> 130000,
     view_direction |-> -1, view_width |-> 4] }

\* A raw packet: a stamp and 12 blocks of a header, a rotation and 32
\* three-byte entries (distance low byte, distance high byte, intensity).
MkBlock(header, rotation, dist(_), inten(_)) ==
  [header |-> header, rotation |-> rotation,
   data |-> [n \in 1..BLOCK_DATA_SIZE |->
               LET j == (n - 1) \div RAW_SCAN_SIZE
                   o == (n - 1) % RAW_SCAN_SIZE
               IN IF o = 0 THEN dist(j) % 256
                  ELSE IF o = 1 THEN dist(j) \div 256
                  ELSE inten(j)]]

MkPacket(stamp, header(_), rotation(_), dist(_, _), inten(_, _)) ==
  [stamp |-> stamp,
   blocks |-> [b \in 1..BLOCKS_PER_PACKET |->
                 LET d(j) == dist(b - 1, j)
                     n(j) == inten(b - 1, j)
                 IN MkBlock(header(b - 1), rotation(b - 1), d, n)]]

\* Raw distances around the range limits in a few slots of blocks 0, 5 and
\* 11, zero elsewhere.
DistA(b, j) ==
  IF b \notin {0, 5, 11} THEN 0
  ELSE CASE j % 16 = 0 -> 450
         [] j % 16 = 1 -> 445
         [] j % 16 = 2 -> 490
         [] j % 16 = 3 -> 225
         [] j % 16 = 4 -> 245
         [] j % 16 = 5 -> 65535
         [] OTHER -> 0

IntenA(b, j) == (37 * j + b) % 256

StampA == [sec |-> 100, nsec |-> 0]
StampB == [sec |-> 100, nsec |-> 999900000]

AllUpper(b) == UPPER_BANK
Banks(b) == IF b % 2 = 0 THEN UPPER_BANK ELSE LOWER_BANK
BadAt5(b) == IF b = 5 THEN LOWER_BANK ELSE UPPER_BANK

RotWrap(b) == (35900 + 20 * b) % ROTATION_MAX_UNITS
RotQuarter(b) == (9000 * b) % ROTATION_MAX_UNITS
RotBack(b) == 35999 - 3000 * b
RotHigh(b) == IF b \in {0, 10} THEN 65535 ELSE 0
RotFull(b) == ROTATION_MAX_UNITS

CorePackets ==
  << MkPacket(StampB, AllUpper, RotWrap, DistA, IntenA),
     MkPacket(StampA, AllUpper, RotBack, DistA, IntenA),
     MkPacket(StampA, BadAt5, RotWrap, DistA, IntenA),
     MkPacket(StampA, Banks, RotQuarter, DistA, IntenA),
     MkPacket(StampA, AllUpper, RotHigh, DistA, IntenA),
     MkPacket(StampA, AllUpper, RotFull, DistA, IntenA) >>

\* More rotation sequences, for the specification of single decode calls:
\* constant steps from several starts (still, slow, fast, half a turn, one
\* unit short of a turn), and two sequences that go back and forth.
RotStarts == << 0, 18000, 35999 >>
RotSteps == << 0, 1, 40, 3273, 18000, 35999 >>

SteppedPacket(n) ==
  LET r0 == RotStarts[((n - 1) % Len(RotStarts)) + 1]
      step == RotSteps[((n - 1) \div Len(RotStarts)) + 1]
      Rot(b) == (r0 + step * b) % ROTATION_MAX_UNITS
  IN MkPacket(StampA, AllUpper, Rot, DistA, IntenA)

RotZigzag(b) == IF b % 2 = 0 THEN 100 ELSE 35000
RotScattered(b) == (7919 * b * b + 123) % ROTATION_MAX_UNITS

SweepPackets ==
  [n \in 1..(Len(RotStarts) * Len(RotSteps)) |-> SteppedPacket(n)]
    \o << MkPacket(StampA, AllUpper, RotZigzag, DistA, IntenA),
          MkPacket(StampA, AllUpper, RotScattered, DistA, IntenA) >>

PacketList == CorePackets \o SweepPackets

PacketIds == 1..Len(CorePackets)
AllPacketIds == 1..Len(PacketList)

\* The intensity fields of a LaserCorrection: focal_distance 0, 6550 or
\* 13100 (focal_offset 256, 64, 0), focal_slope 0, 1 or 3/2, and the clamp
\* bounds, the last pair with min_intensity above max_intensity.
FocalDistances == { 0, 6550, 13100 }
FocalSlopes == { Whole(0), Whole(1), Rat(3, 2) }
IntensityBounds == { <<0, 255>>, <<40, 200>>, <<200, 40>> }

IntensityCorrections ==
  { [focal_distance |-> fd, focal_slope |-> fs,
     min_intensity |-> b[1], max_intensity |-> b[2]] :
       fd \in FocalDistances, fs \in FocalSlopes, b \in IntensityBounds }

\* Raw 16-bit distances: 0, 1/5, 1/3 and 2/3 of 65535, and 65535
RawDistances == { 0, 13107, 21845, 43690, 65535 }

\* Raw intensity bytes
RawIntensities == { 0, 100, 255 }

\* A wider set of view angles, for the specification of setParameters alone.
ViewDirections ==
  { 0, 1, -1, 3, 36000, 71999, 72000, -72000, 143999, 144001, 200002,
    -300001 }

ViewWidths ==
  { 0, 2, 4, 36002, 72000, 143998, 144000, 144002, 287998, 288000 }

WideParamInputs ==
  [min_range : {900}, max_range : {1000, 130000},
   view_direction : ViewDirections, view_width : ViewWidths]

\* ------------------------------------------------------------------------
\* setParameters (rawdata.cc 48-74)

\* 2*M_PI in quarters of a hundredth of a degree
TWO_PI == 4 * ROTATION_MAX_UNITS

\* fmod(fmod(a, 2*M_PI) + 2*M_PI, 2*M_PI)
PositiveModulo(a) == CRem(CRem(a, TWO_PI) + TWO_PI, TWO_PI)

\* 100 * (2*M_PI - tmp) * 180 / M_PI + 0.5, converted to int (truncated)
ToHardwareAngle(tmp) == (2 * (TWO_PI - tmp) + 4) \div 8

\* (a slip: equal bounds are kept)
WidenNever(lo, hi) == [min_angle |-> lo, max_angle |-> hi]

\* if (min_angle == max_angle) { min_angle = 0; max_angle = 36000; }
WidenIfEmpty(lo, hi) ==
  IF lo = hi THEN [min_angle |-> 0, max_angle |-> ROTATION_MAX_UNITS]
  ELSE [min_angle |-> lo, max_angle |-> hi]

SetParametersConfig(p) ==
  LET tmp_min == PositiveModulo(p.view_direction + p.view_width \div 2)
      tmp_max == PositiveModulo(p.view_direction - p.view_width \div 2)
      w == WidenIfEmpty(ToHardwareAngle(tmp_min), ToHardwareAngle(tmp_max))
  IN [config EXCEPT !.min_range = p.min_range,
                    !.max_range = p.max_range,
                    !.tmp_min_angle = tmp_min,
                    !.tmp_max_angle = tmp_max,
                    !.min_angle = w.min_angle,
                    !.max_angle = w.max_angle,
                    !.set = TRUE]

\* ------------------------------------------------------------------------
\* setup (rawdata.cc 77-125) and getVLP32TimingOffsets (128-154)

\* offsets[i][j] = Duration(full_firing_cycle * i + single_firing * (j / 2)),
\* a 12 x 32 table (dual_mode is false)
getVLP32TimingOffsets ==
  [i \in 1..12 |->
     [j \in 1..32 |->
        DurationNs(VLP_32_SPEC.firing_seq_duration * (i - 1)
                     + VLP_32_SPEC.firing_duration * ((j - 1) \div 2))]]

\* Calibration::read: a resource that cannot be loaded clears `initialized`
\* and leaves the table as it was.
CalibrationRead(file) ==
  IF file.readable
  THEN [initialized |-> TRUE, num_lasers |-> file.num_lasers,
        laser_corrections |-> LaserCorrections(file.num_lasers)]
  ELSE [calibration EXCEPT !.initialized = FALSE]

\* getParam("device_model", config_.deviceModel): an absent parameter leaves
\* the field as it was
DeviceModelAfter(param) ==
  IF param = "absent" THEN config.deviceModel ELSE param

\* (a slip: the model hint is looked at before the laser count)
SelectVariantHintFirst(num_lasers, deviceModel) ==
  IF deviceModel = "VLP32"
  THEN <<VLP_32_SPEC, getVLP32TimingOffsets, TRUE>>
  ELSE IF num_lasers = 16 THEN <<VLP_16_SPEC, <<>>, TRUE>>
       ELSE <<vlp_spec, <<>>, FALSE>>

\* the variant selection at 105-116: <<vlp_spec_, timing_offsets_, is_vlp_>>
SelectVariant(num_lasers, deviceModel) ==
  IF num_lasers = 16 THEN <<VLP_16_SPEC, <<>>, TRUE>>
  ELSE IF deviceModel = "VLP32"
       THEN <<VLP_32_SPEC, getVLP32TimingOffsets, TRUE>>
       ELSE <<vlp_spec, <<>>, FALSE>>

\* ------------------------------------------------------------------------
\* The steps shared by the two decode paths

\* pointInRange (rawdata.h): min_range <= range <= max_range
pointInRange(range) ==
  range >= config.min_range /\ range <= config.max_range

\* calibration_.laser_corrections.at(n) throws std::out_of_range
AtThrows(laser_number) ==
  laser_number >= Len(calibration.laser_corrections)

Corrections(laser_number) == calibration.laser_corrections[laser_number + 1]

\* tmp.uint of slot j of a block
RawDistance(blk, j) ==
  TwoBytes(blk.data[RAW_SCAN_SIZE * j + 1], blk.data[RAW_SCAN_SIZE * j + 2])

\* The result of a decode call: the value returned, the points appended in
\* order, for each (in `emitted`) the <<block, slot>> it comes from, the
\* indices at which the call read cos_rot_table_ and sin_rot_table_, and
\* whether the call left by std::out_of_range.
NoPoints ==
  [points |-> <<>>, emitted |-> <<>>, lookups |-> {}, threw |-> FALSE]

Joined(a, b) ==
  [points |-> a.points \o b.points, emitted |-> a.emitted \o b.emitted,
   lookups |-> a.lookups \cup b.lookups, threw |-> b.threw]

\* the slots 0 .. n-1 as a sequence
SlotSeq(n) == [k \in 1..n |-> k - 1]

\* the number of slots of one block before the first whose lookup throws
BeforeThrow(n, Laser(_)) ==
  LET bad == {k \in 0..(n - 1) : AtThrows(Laser(k))}
  IN IF bad = {} THEN n ELSE CHOOSE k \in bad : \A m \in bad : k <= m

\* ------------------------------------------------------------------------
\* unpack_vlp (rawdata.cc 334-524)

\* 366-372: the azimuth difference to the next block; the last block reuses
\* the one before
AzimuthDiff(pkt, block, last_azimuth_diff) ==
  IF block < BLOCKS_PER_PACKET - 1
  THEN CRem(ROTATION_MAX_UNITS + pkt.blocks[block + 2].rotation
              - pkt.blocks[block + 1].rotation, ROTATION_MAX_UNITS)
  ELSE last_azimuth_diff

\* (a slip: the difference reused for the last block is added too)
SliceAngleAfterEveryBlock(slice_angle, block, azimuth_diff) ==
  slice_angle + azimuth_diff

\* 366-369: slice_angle grows by the difference except at the last block
SliceAngleAfter(slice_angle, block, azimuth_diff) ==
  IF block < BLOCKS_PER_PACKET - 1 THEN slice_angle + azimuth_diff
  ELSE slice_angle

\* 385-388: the azimuth interpolated over the firing, rounded and wrapped
AzimuthCorrected(azimuth, azimuth_diff, laser, firing_seq) ==
  LET firing_offset ==
        (laser \div vlp_spec.lasers_per_firing) * vlp_spec.firing_duration
      firing_seq_offset == firing_seq * vlp_spec.firing_seq_duration
  IN CRem(RoundDiv(azimuth * vlp_spec.block_duration
                     + azimuth_diff * (firing_offset + firing_seq_offset),
                   vlp_spec.block_duration),
          ROTATION_MAX_UNITS)

\* (a slip: the window that wraps through zero is not handled)
VlpAzimuthInRangeNoWrap(azimuth_corrected) ==
  /\ azimuth_corrected >= config.min_angle
  /\ azimuth_corrected <= config.max_angle

\* 392-397
VlpAzimuthInRange(azimuth_corrected) ==
  \/ /\ azimuth_corrected >= config.min_angle
     /\ azimuth_corrected <= config.max_angle
     /\ config.min_angle < config.max_angle
  \/ /\ config.min_angle > config.max_angle
     /\ \/ azimuth_corrected <= config.max_angle
        \/ azimuth_corrected >= config.min_angle

\* (a slip: the laser's distance correction is left out)
VlpDistanceUncorrected(raw, corrections) ==
  raw * vlp_spec.distance_resolution

\* 400-401
VlpDistance(raw, corrections) ==
  raw * vlp_spec.distance_resolution + corrections.dist_correction

\* (a slip: the timing offset is not applied)
VlpPointTimeNoOffset(stamp, block, firing_seq) == stamp

\* 499-504
VlpPointTime(stamp, block, firing_seq) ==
  IF timing_offsets # <<>>
  THEN TimePlus(stamp, timing_offsets[block + 1][firing_seq + 1])
  ELSE stamp

\* 507-514
VlpPoint(distance, azimuth_corrected, corrections, pt_time) ==
  [distance |-> distance, azimuth |-> azimuth_corrected,
   laser_id |-> corrections.laser_ring,
   time_sec |-> pt_time.sec, time_nsec |-> pt_time.nsec]

VlpLaser(k) == k % vlp_spec.lasers_per_firing_seq
VlpFiringSeq(k) == k \div vlp_spec.lasers_per_firing_seq

\* 384-397 and 497: whether slot k of the block appends a point
VlpSlotAppends(pkt, block, azimuth, azimuth_diff, k) ==
  LET corrections == Corrections(VlpLaser(k))
      a == AzimuthCorrected(azimuth, azimuth_diff, VlpLaser(k), VlpFiringSeq(k))
  IN /\ pointInRange(VlpDistance(RawDistance(pkt.blocks[block + 1], k),
                                 corrections))
     /\ VlpAzimuthInRange(a)

VlpSlotPoint(pkt, block, azimuth, azimuth_diff, k) ==
  LET corrections == Corrections(VlpLaser(k))
      a == AzimuthCorrected(azimuth, azimuth_diff, VlpLaser(k), VlpFiringSeq(k))
  IN VlpPoint(VlpDistance(RawDistance(pkt.blocks[block + 1], k), corrections),
              a, corrections,
              VlpPointTime(pkt.stamp, block, VlpFiringSeq(k)))

\* 392-397 and 410-415: the table is read at azimuth_corrected for every
\* slot that passes the azimuth test, before the range is looked at
VlpLookups(azimuth, azimuth_diff, done) ==
  { a \in { AzimuthCorrected(azimuth, azimuth_diff, VlpLaser(k),
                             VlpFiringSeq(k)) : k \in 0..(done - 1) } :
      VlpAzimuthInRange(a) }

\* 374-521: the firing loops of one block
VlpBlock(pkt, block, azimuth, azimuth_diff) ==
  LET nslots == IF vlp_spec.firing_seqs_per_block > 0
                   /\ vlp_spec.lasers_per_firing_seq > 0
                THEN vlp_spec.firing_seqs_per_block
                       * vlp_spec.lasers_per_firing_seq
                ELSE 0
      done == BeforeThrow(nslots, VlpLaser)
      Appends(k) == VlpSlotAppends(pkt, block, azimuth, azimuth_diff, k)
      kept == SelectSeq(SlotSeq(done), Appends)
  IN [points |-> [i \in 1..Len(kept) |->
                    VlpSlotPoint(pkt, block, azimuth, azimuth_diff, kept[i])],
      emitted |-> [i \in 1..Len(kept) |-> <<block, kept[i]>>],
      lookups |-> VlpLookups(azimuth, azimuth_diff, done),
      threw |-> done < nslots]

\* 348-523: the block loop
RECURSIVE VlpBlocks(_, _, _, _, _)
VlpBlocks(pkt, block, slice_angle, last_azimuth_diff, acc) ==
  IF block >= BLOCKS_PER_PACKET
  THEN [ret |-> slice_angle, out |-> acc, path |-> "vlp"]
  ELSE IF UPPER_BANK # pkt.blocks[block + 1].header
  THEN [ret |-> -1, out |-> acc, path |-> "vlp"]
  ELSE LET azimuth == pkt.blocks[block + 1].rotation
           azimuth_diff == AzimuthDiff(pkt, block, last_azimuth_diff)
           slice == SliceAngleAfter(slice_angle, block, azimuth_diff)
           now == Joined(acc, VlpBlock(pkt, block, azimuth, azimuth_diff))
       IN IF now.threw
          THEN [ret |-> 0, out |-> now, path |-> "vlp"]   \* nothing returned
          ELSE VlpBlocks(pkt, block + 1, slice, azimuth_diff, now)

unpack_vlp(pkt) == VlpBlocks(pkt, 0, 0, 0, NoPoints)

\* ------------------------------------------------------------------------
\* unpackAndAdd (rawdata.cc 162-327)

\* 179-183
BankOrigin(header) == IF header = LOWER_BANK THEN 32 ELSE 0

\* 202-207
LegacyAzimuthInRange(rotation) ==
  \/ /\ rotation >= config.min_angle
     /\ rotation <= config.max_angle
     /\ config.min_angle < config.max_angle
  \/ /\ config.min_angle > config.max_angle
     /\ \/ rotation <= config.max_angle
        \/ rotation >= config.min_angle

\* 208-209
LegacyDistance(raw, corrections) ==
  raw * DISTANCE_RESOLUTION + corrections.dist_correction

\* 307: no firing correction for this model
LegacyPointTime(stamp) == stamp

\* 310-318
LegacyPoint(distance, rotation, corrections, pt_time) ==
  [distance |-> distance, azimuth |-> rotation,
   laser_id |-> corrections.laser_ring,
   time_sec |-> pt_time.sec, time_nsec |-> pt_time.nsec]

\* 202-207 and 306: whether slot j of the block appends a point
LegacySlotAppends(blk, j) ==
  /\ pointInRange(LegacyDistance(RawDistance(blk, j),
                                 Corrections(j + BankOrigin(blk.header))))
  /\ LegacyAzimuthInRange(blk.rotation)

\* 202-207 and 218-223: the table is read at the block's rotation for every
\* slot, when the rotation passes the azimuth test
LegacyLookups(rotation, done) ==
  IF done > 0 /\ LegacyAzimuthInRange(rotation) THEN {rotation} ELSE {}

\* 185-324: the scan loop of one block
LegacyBlock(pkt, i) ==
  LET blk == pkt.blocks[i + 1]
      Laser(j) == j + BankOrigin(blk.header)
      done == BeforeThrow(SCANS_PER_BLOCK, Laser)
      Appends(j) == LegacySlotAppends(blk, j)
      kept == SelectSeq(SlotSeq(done), Appends)
  IN [points |-> [n \in 1..Len(kept) |->
                    LegacyPoint(LegacyDistance(RawDistance(blk, kept[n]),
                                               Corrections(Laser(kept[n]))),
                                blk.rotation, Corrections(Laser(kept[n])),
                                LegacyPointTime(pkt.stamp))],
      emitted |-> [n \in 1..Len(kept) |-> <<i, kept[n]>>],
      lookups |-> LegacyLookups(blk.rotation, done),
      threw |-> done < SCANS_PER_BLOCK]

\* 175-326: the block loop; the value returned is -1.0
RECURSIVE LegacyBlocks(_, _, _)
LegacyBlocks(pkt, i, acc) ==
  IF i >= BLOCKS_PER_PACKET THEN [ret |-> -1, out |-> acc, path |-> "legacy"]
  ELSE LET now == Joined(acc, LegacyBlock(pkt, i))
       IN IF now.threw
          THEN [ret |-> 0, out |-> now, path |-> "legacy"]   \* nothing returned
          ELSE LegacyBlocks(pkt, i + 1, now)

\* 168-171: VLP16 and VLP32 packets go to unpack_vlp
unpackAndAdd(pkt) ==
  IF is_vlp THEN unpack_vlp(pkt) ELSE LegacyBlocks(pkt, 0, NoPoints)

\* (a slip: the points are put in front of the collection)
AppendedInFront(cloud, points) ==
  [points |-> points \o cloud.points, width |-> cloud.width + Len(points)]

\* 320-321 and 516-517: push_back and ++width for every point of the call
Appended(cloud, points) ==
  [points |-> cloud.points \o points, width |-> cloud.width + Len(points)]

\* ------------------------------------------------------------------------
\* The intensity step of one slot (292-304 in unpackAndAdd, 483-495 in
\* unpack_vlp)

\* 296-298, 487-489
FocalOffset(corrections) ==
  LET f == RatSub(Whole(1), Rat(corrections.focal_distance, 13100))
  IN RatMul(Whole(256), RatMul(f, f))

\* 303-304, 494-495: the two conditional assignments, in their order
ClampIntensity(value, corrections) ==
  LET min_intensity == Whole(corrections.min_intensity)
      max_intensity == Whole(corrections.max_intensity)
      low == IF RatLess(value, min_intensity) THEN min_intensity ELSE value
  IN IF RatLess(max_intensity, low) THEN max_intensity ELSE low

\* 292-304: the distance is converted to float before the division
LegacyIntensity(uint, raw_intensity, corrections) ==
  LET ratio == Rat(uint, 65535)
      g == RatSub(Whole(1), ratio)
      curve == RatMul(Whole(256), RatMul(g, g))
      sum == RatAdd(Whole(raw_intensity),
                    RatMul(corrections.focal_slope,
                           RatAbs(RatSub(FocalOffset(corrections), curve))))
  IN ClampIntensity(sum, corrections)

\* 483-495: tmp.uint/65535 divides a uint16_t by an int, an integer quotient
VlpIntensity(uint, raw_intensity, corrections) ==
  LET quotient == uint \div 65535
      curve == Whole(256 * (1 - quotient) * (1 - quotient))
      sum == RatAdd(Whole(raw_intensity),
                    RatMul(corrections.focal_slope,
                           RatAbs(RatSub(FocalOffset(corrections), curve))))
  IN ClampIntensity(sum, corrections)

\* ------------------------------------------------------------------------
\* The state machine

\* `call` records the last decode call: the packet, the value returned,
\* the path taken, whether it left by an exception, the size of the
\* collection before it, the slot each appended point comes from and the
\* indices at which the trig table was read.
NoCall ==
  [ret |-> 0, path |-> "none", threw |-> FALSE, pkt |-> 0, emitted |-> <<>>,
   lookups |-> {}, before |-> 0]

\* After construction (RawData::RawData() {}): nothing is set.  is_vlp_ and
\* vlp_spec_ hold whatever the storage held; config_ holds no parameters
\* until setParameters gives them.  The object is configured (setup and
\* setParameters, in any order and any number of times) and then fed
\* packets.
\* `intensity` records the last intensity step taken on its own: the path,
\* the raw distance and intensity, the laser's correction and the value.
NoIntensity ==
  [path |-> "none", uint |-> 0, raw |-> 0, value |-> Whole(0),
   corrections |-> [focal_distance |-> 0, focal_slope |-> Whole(0),
                    min_intensity |-> 0, max_intensity |-> 0]]

Init ==
  /\ calibration = [initialized |-> FALSE, num_lasers |-> 0,
                    laser_corrections |-> <<>>]
  /\ config = [min_range |-> 0, max_range |-> 0,
               tmp_min_angle |-> 0, tmp_max_angle |-> 0,
               min_angle |-> 0, max_angle |-> 0,
               deviceModel |-> "", set |-> FALSE]
  /\ is_vlp \in BOOLEAN
  /\ vlp_spec \in {ZERO_SPEC, VLP_16_SPEC}
  /\ timing_offsets = <<>>
  /\ rot_table = 0
  /\ pc = [points |-> <<>>, width |-> 0]
  /\ ndecodes = 0
  /\ call = NoCall
  /\ setup_ret = 0
  /\ intensity = NoIntensity

SetParameters(p) ==
  /\ ndecodes = 0
  /\ config' = SetParametersConfig(p)
  /\ UNCHANGED <<calibration, is_vlp, vlp_spec, timing_offsets, rot_table,
                 pc, ndecodes, call, setup_ret, intensity>>

\* 91-96: the calibration cannot be read
SetupFails(file, param) ==
  /\ ndecodes = 0
  /\ ~file.readable
  /\ calibration' = CalibrationRead(file)
  /\ setup_ret' = -1
  /\ UNCHANGED <<config, is_vlp, vlp_spec, timing_offsets, rot_table, pc,
                 ndecodes, call, intensity>>

\* 98-124
SetupSucceeds(file, param) ==
  /\ ndecodes = 0
  /\ file.readable
  /\ calibration' = CalibrationRead(file)
  /\ config' = [config EXCEPT !.deviceModel = DeviceModelAfter(param)]
  /\ LET v == SelectVariant(file.num_lasers, DeviceModelAfter(param))
     IN /\ vlp_spec' = v[1]
        /\ timing_offsets' = v[2]
        /\ is_vlp' = v[3]
  /\ rot_table' = ROTATION_MAX_UNITS
  /\ setup_ret' = 0
  /\ UNCHANGED <<pc, ndecodes, call, intensity>>

Setup(file, param) == SetupFails(file, param) \/ SetupSucceeds(file, param)

\* One packet decoded onto the caller's collection.
Unpack(id) ==
  /\ config.set
  /\ \E r \in {unpackAndAdd(PacketList[id])} :
        /\ pc' = Appended(pc, r.out.points)
        /\ call' = [ret |-> r.ret, path |-> r.path,
                    threw |-> r.out.threw, pkt |-> id,
                    emitted |-> r.out.emitted, lookups |-> r.out.lookups,
                    before |-> Len(pc.points)]
  /\ ndecodes' = ndecodes + 1
  /\ UNCHANGED <<calibration, config, is_vlp, vlp_spec, timing_offsets,
                 rot_table, setup_ret, intensity>>

UnpackAndAdd(id) == ndecodes < MaxDecodes /\ Unpack(id)

\* A single packet decoded onto an empty collection.
UnpackOnce(id) == ndecodes = 0 /\ Unpack(id)

Next ==
  \/ \E p \in ParamInputs : SetParameters(p)
  \/ \E file \in CalibrationFiles, param \in DeviceModelParams :
       Setup(file, param)
  \/ \E id \in PacketIds : UnpackAndAdd(id)

Spec == Init /\ [][Next]_vars

\* Single decode calls, over the wider set of packets
NextPackets ==
  \/ \E p \in ParamInputs : SetParameters(p)
  \/ \E file \in CalibrationFiles, param \in DeviceModelParams :
       Setup(file, param)
  \/ \E id \in AllPacketIds : UnpackOnce(id)

SpecPackets == Init /\ [][NextPackets]_vars

\* The intensity step of one slot, in either path, taken once
LegacyIntensityStep(uint, raw_intensity, corrections) ==
  /\ intensity.path = "none"
  /\ intensity' = [path |-> "legacy", uint |-> uint, raw |-> raw_intensity,
                   value |-> LegacyIntensity(uint, raw_intensity, corrections),
                   corrections |-> corrections]
  /\ UNCHANGED <<calibration, config, is_vlp, vlp_spec, timing_offsets,
                 rot_table, pc, ndecodes, call, setup_ret>>

VlpIntensityStep(uint, raw_intensity, corrections) ==
  /\ intensity.path = "none"
  /\ intensity' = [path |-> "vlp", uint |-> uint, raw |-> raw_intensity,
                   value |-> VlpIntensity(uint, raw_intensity, corrections),
                   corrections |-> corrections]
  /\ UNCHANGED <<calibration, config, is_vlp, vlp_spec, timing_offsets,
                 rot_table, pc, ndecodes, call, setup_ret>>

NextIntensity ==
  \E uint \in RawDistances, raw_intensity \in RawIntensities,
     corrections \in IntensityCorrections :
       \/ LegacyIntensityStep(uint, raw_intensity, corrections)
       \/ VlpIntensityStep(uint, raw_intensity, corrections)

SpecIntensity == Init /\ [][NextIntensity]_vars

\* setParameters alone, over the wider set of view angles
NextParams == \E p \in WideParamInputs : SetParameters(p)

SpecParams == Init /\ [][NextParams]_vars

\* ------------------------------------------------------------------------
\* What the properties below speak of

\* the packet of the last decode call and the points that call appended
LastPkt == PacketList[call.pkt]
NewPoints == SubSeq(pc.points, call.before + 1, Len(pc.points))

\* the last decode call returned (it did not leave by an exception)
Returned == ndecodes > 0 /\ ~call.threw

HasBadHeader(pkt) ==
  \E b \in 1..BLOCKS_PER_PACKET : pkt.blocks[b].header # UPPER_BANK

RotationsInDomain(pkt) ==
  \A b \in 1..BLOCKS_PER_PACKET :
    pkt.blocks[b].rotation \in 0..(ROTATION_MAX_UNITS - 1)

\* the sum over the first n consecutive block pairs of the azimuth delta,
\* with the mathematical (non-negative) modulo
RECURSIVE SweepSum(_, _)
SweepSum(pkt, n) ==
  IF n = 0 THEN 0
  ELSE SweepSum(pkt, n - 1)
         + ((36000 + pkt.blocks[n + 1].rotation - pkt.blocks[n].rotation)
              % 36000)

\* ------------------------------------------------------------------------
\* C1: on the VLP path a packet with a block header other than the
\* upper-bank marker appends no point (the collection and its width are as
\* before the call) and the call returns the failure value -1.
C1_BadHeaderAppendsNothing ==
  (Returned /\ calibration.initialized /\ call.path = "vlp"
     /\ HasBadHeader(LastPkt))
    => /\ Len(pc.points) = call.before
       /\ pc.width = call.before
       /\ call.ret = -1

\* C2: on the VLP path a packet whose headers are all valid and whose
\* rotations lie in [0, 36000) returns the sum over the 11 consecutive block
\* pairs of (36000 + rotation[b+1] - rotation[b]) mod 36000; the difference
\* reused for the last block adds nothing.
C2_ReturnsSweepSum ==
  (Returned /\ call.path = "vlp" /\ ~HasBadHeader(LastPkt)
     /\ RotationsInDomain(LastPkt))
    => call.ret = SweepSum(LastPkt, BLOCKS_PER_PACKET - 1)

\* a valid packet whose rotation wraps through zero was decoded on the VLP
\* path, appended points and returned a positive sweep
C2_Witness ==
  /\ Returned /\ call.path = "vlp" /\ ~HasBadHeader(LastPkt)
  /\ RotationsInDomain(LastPkt)
  /\ \E b \in 1..(BLOCKS_PER_PACKET - 1) :
       LastPkt.blocks[b + 1].rotation < LastPkt.blocks[b].rotation
  /\ call.ret > 0
  /\ Len(pc.points) > call.before

\* C3: the value returned tells the case: -1 on the legacy path whatever
\* the packet holds; on the VLP path negative exactly when the packet was
\* rejected, so never negative for a packet whose headers are all valid,
\* whatever 16-bit rotations it holds.
C3_NegativeExactlyWhenRejected ==
  (Returned /\ calibration.initialized)
    => /\ call.path = "legacy" => call.ret = -1
       /\ call.path = "vlp" => ((call.ret < 0) <=> HasBadHeader(LastPkt))

\* C4: a decode call only appends: the points present before are a prefix
\* of the collection after, the width grows by the number of points
\* appended, and the calibration, the device profile, the timing offsets,
\* the trig table and the field-of-view filter stay as they were.
C4_DecodeOnlyAppends ==
  [][ndecodes' = ndecodes + 1
       => /\ Len(pc'.points) >= Len(pc.points)
          /\ SubSeq(pc'.points, 1, Len(pc.points)) = pc.points
          /\ pc'.width = pc.width + (Len(pc'.points) - Len(pc.points))
          /\ UNCHANGED <<calibration, config, is_vlp, vlp_spec,
                         timing_offsets, rot_table>>]_vars

\* a second decode call appended points to a collection that held some
C4_Witness ==
  /\ ndecodes = 2
  /\ call.before > 0
  /\ Len(pc.points) > call.before
  /\ pc.points[1] # pc.points[call.before + 1]

\* ------------------------------------------------------------------------
\* The slots of the last decoded packet, as the specification describes them

\* the azimuth-range test of the specification on the window (lo, hi)
AzimuthAccepted(a, lo, hi) ==
  \/ (lo < hi /\ lo <= a /\ a <= hi)
  \/ (lo > hi /\ (a <= hi \/ a >= lo))

\* the slots of a block on the path taken
SlotsOfBlock ==
  IF call.path = "vlp"
  THEN 0..(vlp_spec.firing_seqs_per_block * vlp_spec.lasers_per_firing_seq - 1)
  ELSE 0..(SCANS_PER_BLOCK - 1)

\* the hardware laser number of slot k of block b
SlotLaser(b, k) ==
  IF call.path = "vlp" THEN k % vlp_spec.lasers_per_firing_seq
  ELSE IF LastPkt.blocks[b + 1].header = LOWER_BANK THEN k + 32 ELSE k

\* the step-1 distance of the slot: d * resolution + dist_correction
SlotDistance(b, k) ==
  LET d == LastPkt.blocks[b + 1].data[3 * k + 1]
             + 256 * LastPkt.blocks[b + 1].data[3 * k + 2]
      resolution == IF call.path = "vlp" THEN vlp_spec.distance_resolution
                    ELSE DISTANCE_RESOLUTION
  IN d * resolution
       + calibration.laser_corrections[SlotLaser(b, k) + 1].dist_correction

\* the azimuth the slot is tested on: the block's rotation on the legacy
\* path, the interpolated azimuth on the VLP path
SlotAzimuth(b, k) ==
  IF call.path = "vlp"
  THEN AzimuthCorrected(LastPkt.blocks[b + 1].rotation,
                        AzimuthDiff(LastPkt,
                                    IF b = BLOCKS_PER_PACKET - 1
                                    THEN b - 1 ELSE b, 0),
                        k % vlp_spec.lasers_per_firing_seq,
                        k \div vlp_spec.lasers_per_firing_seq)
  ELSE LastPkt.blocks[b + 1].rotation

SlotInRange(b, k) ==
  config.min_range <= SlotDistance(b, k)
    /\ SlotDistance(b, k) <= config.max_range

SlotInView(b, k) ==
  AzimuthAccepted(SlotAzimuth(b, k), config.min_angle, config.max_angle)

EmittedSlots == {call.emitted[i] : i \in 1..Len(call.emitted)}

\* the last decode call went through the whole packet
Decoded ==
  Returned /\ (call.path = "vlp" => ~HasBadHeader(LastPkt))

\* C5: in both paths a slot appends a point exactly when its azimuth passes
\* the field-of-view test and its step-1 distance d * resolution +
\* dist_correction lies in [min_range, max_range], bounds included; every
\* appended point carries that distance, which is within the bounds.
C5_RangeGate ==
  Decoded
    => /\ \A b \in 0..(BLOCKS_PER_PACKET - 1) : \A k \in SlotsOfBlock :
            (<<b, k>> \in EmittedSlots)
              <=> (SlotInRange(b, k) /\ SlotInView(b, k))
       /\ \A i \in 1..Len(NewPoints) :
            /\ NewPoints[i].distance
                 = SlotDistance(call.emitted[i][1], call.emitted[i][2])
            /\ config.min_range <= NewPoints[i].distance
            /\ NewPoints[i].distance <= config.max_range

\* a VLP call appended a point at exactly min_range and one at exactly
\* max_range, and left out a slot beyond the range and a slot out of view
C5_Witness ==
  /\ Decoded /\ call.path = "vlp"
  /\ \E i \in 1..Len(NewPoints) : NewPoints[i].distance = config.min_range
  /\ \E i \in 1..Len(NewPoints) : NewPoints[i].distance = config.max_range
  /\ \E k \in SlotsOfBlock : SlotInView(0, k) /\ ~SlotInRange(0, k)
  /\ \E b \in {0, 5, 11} : \E k \in SlotsOfBlock :
       SlotInRange(b, k) /\ ~SlotInView(b, k)

\* C6: for every azimuth a in [0, 36000) and every window setParameters
\* yields, the test of the legacy path and the test of the VLP path both
\* accept a exactly when (min_angle < max_angle and min_angle <= a <=
\* max_angle) or (min_angle > max_angle and (a <= max_angle or a >=
\* min_angle)).
C6_AzimuthTest ==
  config.set
    => \A a \in 0..(ROTATION_MAX_UNITS - 1) :
         /\ LegacyAzimuthInRange(a)
              <=> AzimuthAccepted(a, config.min_angle, config.max_angle)
         /\ VlpAzimuthInRange(a)
              <=> AzimuthAccepted(a, config.min_angle, config.max_angle)

\* a window that wraps through zero: both tests accept 0 and 35999 and
\* refuse the azimuth just past max_angle
C6_Witness ==
  /\ config.set
  /\ config.min_angle > config.max_angle
  /\ config.min_angle < ROTATION_MAX_UNITS - 1
  /\ config.max_angle + 1 < config.min_angle
  /\ LegacyAzimuthInRange(0) /\ VlpAzimuthInRange(0)
  /\ LegacyAzimuthInRange(35999) /\ VlpAzimuthInRange(35999)
  /\ ~LegacyAzimuthInRange(config.max_angle + 1)
  /\ ~VlpAzimuthInRange(config.max_angle + 1)

\* the angle setParameters derives from a view angle given in quarters of a
\* hundredth of a degree: 36000 minus the angle reduced to one turn, rounded
\* to the nearest unit
DerivedAngle(view) == (2 * (144000 - (view % 144000)) + 4) \div 8

\* C7: after setParameters the filter is never empty: when the derived
\* min_angle and max_angle are equal they are replaced by 0 and 36000, so
\* min_angle # max_angle, some azimuth passes, and in the widened case
\* every azimuth in [0, 36000) passes the test of either path.
C7_FilterNeverEmpty ==
  config.set
    => /\ config.min_angle # config.max_angle
       /\ DerivedAngle(config.tmp_min_angle)
            = DerivedAngle(config.tmp_max_angle)
            => config.min_angle = 0 /\ config.max_angle = 36000
       /\ \E a \in {0, config.min_angle} :
            a < 36000 /\ LegacyAzimuthInRange(a) /\ VlpAzimuthInRange(a)
       /\ (config.min_angle = 0 /\ config.max_angle = 36000)
            => \A a \in 0..35999 :
                 LegacyAzimuthInRange(a) /\ VlpAzimuthInRange(a)

\* setParameters was given a direction and a width whose bounds collapse
\* (half a turn to either side of a direction) and widened the filter
C7_Witness ==
  /\ config.set
  /\ config.tmp_min_angle = config.tmp_max_angle
  /\ config.tmp_min_angle # 0
  /\ config.min_angle = 0
  /\ config.max_angle = 36000
\* C8: setup fails closed: a setup whose calibration load fails returns an
\* error and sets neither the device profile, the timing offsets nor the
\* trig table, and no decode call made while the last setup has failed
\* appends a point.
C8_SetupFailsClosed ==
  [][/\ (setup_ret' = -1 /\ ~calibration'.initialized /\ ndecodes' = 0)
          => UNCHANGED <<is_vlp, vlp_spec, timing_offsets, rot_table>>
     /\ (ndecodes' = ndecodes + 1 /\ setup_ret = -1)
          => pc' = pc]_vars

\* the timing-offset table of the VLP32: 12 rows of 32 entries
IsTimingTable(t) ==
  Len(t) = 12 /\ \A i \in 1..12 : Len(t[i]) = 32

\* C9: a successful setup selects the variant by this priority: 16 lasers
\* give VLP16 with no timing offsets, whatever the model hint; otherwise the
\* hint "VLP32" gives VLP32 with the 12 x 32 timing-offset table; otherwise
\* Legacy64 with no timing offsets.  A packet goes to the VLP path exactly
\* when the variant is VLP16 or VLP32.
C9_VariantSelection ==
  calibration.initialized
    => /\ IF calibration.num_lasers = 16
          THEN is_vlp /\ vlp_spec = VLP_16_SPEC /\ timing_offsets = <<>>
          ELSE IF config.deviceModel = "VLP32"
          THEN is_vlp /\ vlp_spec = VLP_32_SPEC
                 /\ IsTimingTable(timing_offsets)
          ELSE ~is_vlp /\ timing_offsets = <<>>
       /\ ndecodes > 0
            => (call.path = "vlp"
                  <=> (calibration.num_lasers = 16
                         \/ config.deviceModel = "VLP32"))

\* 16 lasers with the hint "VLP32": VLP16, and a packet went the VLP path
C9_Witness ==
  /\ calibration.initialized
  /\ calibration.num_lasers = 16
  /\ config.deviceModel = "VLP32"
  /\ vlp_spec = VLP_16_SPEC
  /\ ndecodes > 0
  /\ call.path = "vlp"
  /\ Len(pc.points) > 0

\* a point's time in nanoseconds
PointNs(p) == 1000000000 * (p.time_sec - 100) + p.time_nsec
StampNs == 1000000000 * (LastPkt.stamp.sec - 100) + LastPkt.stamp.nsec

\* the variant is VLP32
IsVlp32 == is_vlp /\ vlp_spec = VLP_32_SPEC

\* C10: a point's timestamp is the packet's on the Legacy64 and VLP16
\* paths; on the VLP32 path it is the packet's plus the timing offset at
\* [block][firing sequence], whose entry (i, j) is 55.296 us * i + 2.304 us
\* * floor(j / 2) for i in 0..11, j in 0..31.  Within a packet the
\* timestamps do not decrease in the order of appending.
C10_PointTimes ==
  /\ IsVlp32
       => /\ IsTimingTable(timing_offsets)
          /\ \A i \in 0..11 : \A j \in 0..31 :
               timing_offsets[i + 1][j + 1] = 55296 * i + 2304 * (j \div 2)
  /\ ndecodes > 0
       => /\ \A n \in 1..Len(NewPoints) :
               /\ NewPoints[n].time_nsec \in 0..999999999
               /\ PointNs(NewPoints[n])
                    = IF IsVlp32
                      THEN StampNs + 55296 * call.emitted[n][1]
                             + 2304 * ((call.emitted[n][2] \div 32) \div 2)
                      ELSE StampNs
          /\ \A n \in 1..(Len(NewPoints) - 1) :
               \/ NewPoints[n].time_sec < NewPoints[n + 1].time_sec
               \/ /\ NewPoints[n].time_sec = NewPoints[n + 1].time_sec
                  /\ NewPoints[n].time_nsec <= NewPoints[n + 1].time_nsec

\* a VLP32 packet whose points carry different times, the later ones in
\* the second after the packet's
C10_Witness ==
  /\ IsVlp32 /\ calibration.initialized /\ Returned
  /\ Len(NewPoints) > 1
  /\ NewPoints[1].time_sec = LastPkt.stamp.sec
  /\ NewPoints[Len(NewPoints)].time_sec = LastPkt.stamp.sec + 1
  /\ NewPoints[Len(NewPoints)].time_nsec < LastPkt.stamp.nsec

\* ------------------------------------------------------------------------
\* C11

\* The intensity the curve gives with d/65535 a real-valued ratio, clamped
\* into [min_intensity, max_intensity].
RealRatioIntensity(d, raw_intensity, c) ==
  LET g == Rat(65535 - d, 65535)
      curve == Rat(256 * g.num * g.num, g.den * g.den)
      unclamped ==
        RatAdd(Whole(raw_intensity),
               RatMul(c.focal_slope, RatAbs(RatSub(FocalOffset(c), curve))))
      lo == Whole(c.min_intensity)
      hi == Whole(c.max_intensity)
  IN IF c.min_intensity > c.max_intensity THEN ClampIntensity(unclamped, c)
     ELSE IF RatLess(unclamped, lo) THEN lo
     ELSE IF RatLess(hi, unclamped) THEN hi
     ELSE unclamped

\* C11: for the same raw distance, raw intensity byte and LaserCorrection
\* the legacy path and the VLP path produce the same intensity: in either
\* path the step gives the value of the curve with d/65535 a real-valued
\* ratio, clamped; with min_intensity <= max_intensity it lies within those
\* bounds.
C11_IntensitySameInBothPaths ==
  intensity.path # "none" =>
    LET c == intensity.corrections
    IN /\ intensity.value = RealRatioIntensity(intensity.uint, intensity.raw, c)
       /\ c.min_intensity <= c.max_intensity =>
            /\ ~RatLess(intensity.value, Whole(c.min_intensity))
            /\ ~RatLess(Whole(c.max_intensity), intensity.value)

\* ------------------------------------------------------------------------
\* C12

\* C12: every lookup into the rotation trig table uses an index in
\* [0, 36000), in both decode paths, for every packet (any 16-bit block
\* rotation) and every field-of-view filter setParameters can produce, the
\* widened filter min_angle = 0, max_angle = 36000 included.
C12_TableIndexInRange ==
  (calibration.initialized /\ ndecodes > 0)
    => \A a \in call.lookups : 0 <= a /\ a < ROTATION_MAX_UNITS

====
